---- MODULE Spec2Model ----
(***************************************************************************)
(* Model of proyectocsFGU_V2.py: the extraction-and-render pipeline of    *)
(* parse_fgu_character_to_html, the pure helpers it uses, and the         *)
(* generate handler that calls it.                                        *)
(*                                                                         *)
(* A Python str is a sequence of one-character strings, so that int(),    *)
(* strip(), split(), escape() and comparisons are computed character by   *)
(* character.  A dynamically typed Python value handed to format_modifier *)
(* is a record [type, val] with type "int" or "str".                      *)
(***************************************************************************)
EXTENDS Integers, Sequences, FiniteSets, TLC

VARIABLES
    pc,            \* position of the running function
    fm_value,      \* format_modifier: argument
    fm_out,        \* format_modifier: value returned
    fm_again,      \* format_modifier: value returned for its own output
    element,       \* formatted_html: argument
    fh_out,        \* formatted_html: value returned
    fh_again,      \* the duplicate-line suppression applied to fh_out
    xml_content,   \* parse_fgu_character_to_html: the document handed in
    char,          \* root.find("character")
    locals,        \* the local variables assigned so far
    html,          \* the document text built so far, as its pieces in order
    ret,           \* the (html, error) pair returned
    request,       \* generate: the request received
    response       \* generate: the response returned

fmVars == <<fm_value, fm_out, fm_again>>
fhVars == <<element, fh_out, fh_again>>
coreVars == <<xml_content, char, locals, html, ret>>
genVars == <<request, response>>
vars == <<pc, fm_value, fm_out, fm_again, element, fh_out, fh_again,
          xml_content, char, locals, html, ret, request, response>>

\* Python's None, and a present value, as a sequence of length 0 or 1.
None == <<>>
Some(x) == <<x>>

\* A variable no statement has assigned yet.
Unset == [type |-> "unset", val |-> 0]

(***************************************************************************)
(* Bounds of the model.                                                    *)
(***************************************************************************)
MaxFmLen == 3      \* longest string handed to format_modifier
MaxFmInt == 12     \* largest |int| handed to format_modifier
MaxFhLen == 3      \* longest own text of an element handed to formatted_html
MaxChildren == 2   \* most child elements of that element
MaxTextLen == 2    \* longest text of a scalar field of the document
MaxClasses == 2    \* most classes of the document
MaxSkills == 3     \* most skills of the document
MaxPowers == 3     \* most powers of the document
MaxSlotLevels == 3 \* most spell-slot levels the document declares
MaxItems == 2      \* most features, feats, inventory items or coins of the document
MaxNameLen == 3    \* longest character name of an uploaded document

(***************************************************************************)
(* Python str primitives.                                                  *)
(***************************************************************************)
Digits == <<"0", "1", "2", "3", "4", "5", "6", "7", "8", "9">>
DigitChars == {Digits[i] : i \in 1..10}
Whitespace == {" ", "\n", "\t"}

DigitVal(c) == (CHOOSE i \in 1..10 : Digits[i] = c) - 1

\* All strings over alphabet A of length 0..n.
StringsUpTo(A, n) == UNION {[1..k -> A] : k \in 0..n}

\* str.strip(): drop leading and trailing whitespace.
RECURSIVE LStrip(_)
LStrip(s) ==
    IF s # <<>> /\ Head(s) \in Whitespace THEN LStrip(Tail(s)) ELSE s

RECURSIVE RStrip(_)
RStrip(s) ==
    IF s # <<>> /\ s[Len(s)] \in Whitespace
    THEN RStrip(SubSeq(s, 1, Len(s) - 1)) ELSE s

Strip(s) == RStrip(LStrip(s))

\* str.isdigit() on the characters of the model: non-empty, digits only.
IsDigit(s) == s # <<>> /\ \A i \in 1..Len(s) : s[i] \in DigitChars

RECURSIVE DigitsVal(_)
DigitsVal(s) ==
    IF s = <<>> THEN 0
    ELSE 10 * DigitsVal(SubSeq(s, 1, Len(s) - 1)) + DigitVal(s[Len(s)])

\* int(str) succeeds: surrounding whitespace, one optional sign, digits.
IntParses(s) ==
    LET t == Strip(s)
        u == IF t # <<>> /\ Head(t) \in {"+", "-"} THEN Tail(t) ELSE t
    IN IsDigit(u)

\* int(str) where it succeeds.
IntOf(s) ==
    LET t == Strip(s)
    IN IF Head(t) = "-" THEN 0 - DigitsVal(Tail(t))
       ELSE IF Head(t) = "+" THEN DigitsVal(Tail(t))
       ELSE DigitsVal(t)

\* str(int): decimal digits, a leading "-" for a negative number.
RECURSIVE NatToStr(_)
NatToStr(n) ==
    IF n < 10 THEN <<Digits[n + 1]>>
    ELSE NatToStr(n \div 10) \o <<Digits[(n % 10) + 1]>>

IntToStr(n) == IF n < 0 THEN <<"-">> \o NatToStr(0 - n) ELSE NatToStr(n)

PyInt(n) == [type |-> "int", val |-> n]
PyStr(s) == [type |-> "str", val |-> s]

\* Equality of two Python values (an int never equals a str).
PyEq(a, b) == a.type = b.type /\ a.val = b.val

\* ord(c) for the characters the model uses.
CodePoint(c) ==
    CASE c = "\t" -> 9   [] c = "\n" -> 10  [] c = " " -> 32   [] c = "\"" -> 34
      [] c = "#" -> 35   [] c = "&" -> 38   [] c = "'" -> 39   [] c = "+" -> 43
      [] c = "-" -> 45   [] c \in DigitChars -> 48 + DigitVal(c)
      [] c = ";" -> 59   [] c = "<" -> 60   [] c = ">" -> 62
      [] c = "A" -> 65   [] c = "B" -> 66   [] c = "C" -> 67   [] c = "S" -> 83
      [] c = "Z" -> 90   [] c = "a" -> 97   [] c = "b" -> 98   [] c = "c" -> 99
      [] c = "x" -> 120  [] c = "z" -> 122
      [] OTHER -> 200

\* a < b for two str values: by code point, a proper prefix first.
RECURSIVE StrLess(_, _)
StrLess(a, b) ==
    IF b = <<>> THEN FALSE
    ELSE IF a = <<>> THEN TRUE
    ELSE IF Head(a) = Head(b) THEN StrLess(Tail(a), Tail(b))
    ELSE CodePoint(Head(a)) < CodePoint(Head(b))

\* needle in s, for a needle of one or more characters.
Contains(s, needle) ==
    \E i \in 1..(Len(s) - Len(needle) + 1) :
        SubSeq(s, i, i + Len(needle) - 1) = needle

\* s.split('\n'): always at least one line.
RECURSIVE Split(_)
Split(s) ==
    IF \A i \in 1..Len(s) : s[i] # "\n" THEN <<s>>
    ELSE LET k == CHOOSE i \in 1..Len(s) :
                      s[i] = "\n" /\ \A j \in 1..(i - 1) : s[j] # "\n"
         IN <<SubSeq(s, 1, k - 1)>> \o Split(SubSeq(s, k + 1, Len(s)))

\* sep.join(parts).
RECURSIVE Join(_, _)
Join(sep, parts) ==
    IF parts = <<>> THEN <<>>
    ELSE IF Len(parts) = 1 THEN parts[1]
    ELSE parts[1] \o sep \o Join(sep, Tail(parts))

\* html.escape(s, quote=True).
EscapeChar(c) ==
    CASE c = "&" -> <<"&", "a", "m", "p", ";">>
      [] c = "<" -> <<"&", "l", "t", ";">>
      [] c = ">" -> <<"&", "g", "t", ";">>
      [] c = "\"" -> <<"&", "q", "u", "o", "t", ";">>
      [] c = "'" -> <<"&", "#", "x", "2", "7", ";">>
      [] OTHER -> <<c>>

RECURSIVE escape(_)
escape(s) == IF s = <<>> THEN <<>> ELSE EscapeChar(Head(s)) \o escape(Tail(s))

(***************************************************************************)
(* safe_get_text (lines 28-33).  An element is None or Some(record of its *)
(* children's texts); a child that is absent and a child without text    *)
(* both read as the empty str, which is what line 33 makes of them.       *)
(***************************************************************************)
safe_get_text(elem, path, default) ==
    IF elem = None THEN default
    ELSE IF elem[1][path] # <<>> THEN elem[1][path] ELSE default

(***************************************************************************)
(* formatted_html (lines 36-60).  The element is None or                   *)
(* Some([text, children]), children being the serialized child elements.  *)
(***************************************************************************)
\* A suppression that records and compares the lines untrimmed.
RECURSIVE UniqueLinesRaw(_, _)
UniqueLinesRaw(lines, seen) ==
    IF lines = <<>> THEN <<>>
    ELSE LET line == Head(lines)
         IN IF Strip(line) # <<>> /\ line \in seen
            THEN UniqueLinesRaw(Tail(lines), seen)
            ELSE <<line>> \o UniqueLinesRaw(Tail(lines), seen \cup {line})

\* Lines 50-58: the lines kept, given the trimmed lines seen so far.
RECURSIVE UniqueLines(_, _)
UniqueLines(lines, seen) ==
    IF lines = <<>> THEN <<>>
    ELSE LET line == Head(lines)
             line_stripped == Strip(line)
         IN IF line_stripped # <<>> /\ line_stripped \in seen
            THEN UniqueLines(Tail(lines), seen)
            ELSE <<line>> \o UniqueLines(Tail(lines),
                     IF line_stripped # <<>> THEN seen \cup {line_stripped} ELSE seen)

SuppressDoubleSpaced(html_str) ==
    Strip(Join(<<"\n", "\n">>, UniqueLines(Split(html_str), {})))

\* Lines 49-60: split, suppress duplicate lines, join, strip.
SuppressDuplicateLines(html_str) ==
    Strip(Join(<<"\n">>, UniqueLines(Split(html_str), {})))

\* Lines 40-46: the element's own text, then each serialized child.
HtmlStr(elem) ==
    LET text == Strip(elem.text)
        parts == (IF text # <<>> THEN <<text>> ELSE <<>>) \o elem.children
    IN Strip(Join(<<>>, parts))

formatted_html(elem) ==
    IF elem = None THEN <<>> ELSE SuppressDuplicateLines(HtmlStr(elem[1]))

(***************************************************************************)
(* format_modifier (lines 63-69).                                          *)
(***************************************************************************)
\* int(value) raises for the value.
IntRaises(value) ==
    CASE value.type = "int" -> FALSE
      [] value.type = "str" -> ~IntParses(value.val)
      [] OTHER -> TRUE

\* int(value) where it does not raise.
IntValue(value) == IF value.type = "int" THEN value.val ELSE IntOf(value.val)

FormatUnparsed(value) ==
    IF IntRaises(value) THEN value
    ELSE IF IntValue(value) >= 0
         THEN PyStr(<<"+">> \o (IF value.type = "int" THEN IntToStr(value.val)
                                ELSE value.val))
         ELSE PyStr(IntToStr(IntValue(value)))

format_modifier(value) ==
    IF IntRaises(value) THEN value
    ELSE LET val == IntValue(value)
         IN IF val >= 0 THEN PyStr(<<"+">> \o IntToStr(val))
            ELSE PyStr(IntToStr(val))

(***************************************************************************)
(* get_proficiency_bonus (lines 72-78).  level is an int at the call site *)
(* (line 125), so int(level) does not raise there.                        *)
(***************************************************************************)
get_proficiency_bonus(level) ==
    LET lvl == level
    IN 2 + ((lvl - 1) \div 4)

(***************************************************************************)
(* escape_html (lines 81-85).                                              *)
(***************************************************************************)
escape_html(text) == IF text = <<>> THEN <<>> ELSE escape(text)

(***************************************************************************)
(* parse_fgu_character_to_html (lines 88-989): extraction.                 *)
(*                                                                         *)
(* The character element is a record of its children.  A child holding    *)
(* text is that text (empty when the child is absent or has no text); a   *)
(* child holding a list is the sequence of its entries (empty when the    *)
(* child is absent: lines 111, 166, 184, 196, 210, 224 and 255 read both  *)
(* alike); a child holding fields is None or Some(record).  gender, age,  *)
(* specialization, stat, category, cost, personality, ideals, bonds,      *)
(* flaws, the spellcasting values, sorcery_points and the casting details *)
(* of a spell are assigned by the code and never read: they are left out. *)
(***************************************************************************)
ability_names ==
    <<"strength", "dexterity", "constitution", "intelligence", "wisdom", "charisma">>

ZERO == <<"0">>
ONE == <<"1">>
SPELLS == <<"S", "p", "e", "l", "l", "s">>
CANTRIP == <<"C", "a", "n", "t", "r", "i", "p">>

\* A sum that takes only the levels str.isdigit() accepts.
RECURSIVE TotalLevelDigitsOnly(_)
TotalLevelDigitsOnly(classes_elem) ==
    IF classes_elem = <<>> THEN 0
    ELSE LET cls_level == classes_elem[Len(classes_elem)].level
             rest == TotalLevelDigitsOnly(SubSeq(classes_elem, 1, Len(classes_elem) - 1))
         IN IF IsDigit(cls_level) THEN rest + DigitsVal(cls_level) ELSE rest

\* Lines 107-123: the sum of the class levels int() accepts.
RECURSIVE TotalLevel(_)
TotalLevel(classes_elem) ==
    IF classes_elem = <<>> THEN 0
    ELSE LET cls == classes_elem[Len(classes_elem)]
             cls_level == safe_get_text(Some(cls), "level", <<>>)
             rest == TotalLevel(SubSeq(classes_elem, 1, Len(classes_elem) - 1))
         IN IF IntParses(cls_level) THEN rest + IntOf(cls_level) ELSE rest

\* Lines 109-123.
ClassesInfo(classes_elem) ==
    [i \in 1..Len(classes_elem) |->
        [name |-> safe_get_text(Some(classes_elem[i]), "name", <<>>),
         level |-> safe_get_text(Some(classes_elem[i]), "level", <<>>)]]

\* Lines 127-138: the entry of one ability, None when the element is absent.
AbilityEntry(abil_elem) ==
    IF abil_elem = None THEN None
    ELSE Some([score |-> safe_get_text(abil_elem, "score", <<>>),
               bonus |-> safe_get_text(abil_elem, "bonus", <<>>),
               save |-> safe_get_text(abil_elem, "save", <<>>),
               saveprof |-> safe_get_text(abil_elem, "saveprof", ZERO) = ONE])

Abilities(c) == [n \in DOMAIN c.abilities |-> AbilityEntry(c.abilities[n])]

\* The initiative total alone, without line 160.
InitiativeNoFallback(c, abilities) ==
    IF c.initiative # None THEN safe_get_text(c.initiative, "total", <<>>) ELSE <<>>

\* Lines 157-161.
Initiative(c, abilities) ==
    LET initiative == IF c.initiative # None
                      THEN safe_get_text(c.initiative, "total", <<>>) ELSE <<>>
    IN IF initiative = <<>> /\ abilities["dexterity"] # None
       THEN abilities["dexterity"][1].bonus ELSE initiative

\* list.sort(key=name) of line 179: stable, by str comparison.
InsertSkillUnordered(sorted, x) == sorted \o <<x>>

RECURSIVE InsertSkill(_, _)
InsertSkill(sorted, x) ==
    IF sorted = <<>> THEN <<x>>
    ELSE LET last == sorted[Len(sorted)]
         IN IF StrLess(x.name, last.name)
            THEN InsertSkill(SubSeq(sorted, 1, Len(sorted) - 1), x) \o <<last>>
            ELSE sorted \o <<x>>

RECURSIVE SortSkills(_)
SortSkills(skills) ==
    IF skills = <<>> THEN <<>>
    ELSE InsertSkill(SortSkills(SubSeq(skills, 1, Len(skills) - 1)),
                     skills[Len(skills)])

\* Lines 163-179.
Skills(c) ==
    SortSkills([i \in 1..Len(c.skilllist) |->
        [name |-> safe_get_text(Some(c.skilllist[i]), "name", <<>>),
         total |-> safe_get_text(Some(c.skilllist[i]), "total", <<>>),
         prof |-> safe_get_text(Some(c.skilllist[i]), "prof", ZERO) = ONE]])

\* Lines 181-191.
Features(c) ==
    [i \in 1..Len(c.featurelist) |->
        [name |-> safe_get_text(Some(c.featurelist[i]), "name", <<>>),
         level |-> safe_get_text(Some(c.featurelist[i]), "level", <<>>)]]

\* Lines 193-205.
Feats(c) ==
    [i \in 1..Len(c.featlist) |->
        [name |-> safe_get_text(Some(c.featlist[i]), "name", <<>>)]]

\* Lines 207-219.
Inventory(c) ==
    [i \in 1..Len(c.inventorylist) |->
        [name |-> safe_get_text(Some(c.inventorylist[i]), "name", <<>>),
         count |-> safe_get_text(Some(c.inventorylist[i]), "count", ONE)]]

\* Lines 221-228: the dict as its (name, amount) assignments in order; a
\* later assignment to a name replaces the earlier one.
Coins(c) ==
    [i \in 1..Len(c.coins) |->
        [name |-> safe_get_text(Some(c.coins[i]), "name", <<>>),
         amount |-> safe_get_text(Some(c.coins[i]), "amount", ZERO)]]

\* A filter that looks at the group and the level only.
IsSpellGroupOnly(power) ==
    Contains(power.group, SPELLS) /\ power.level # <<>>

\* Line 261: the entry counts as a spell.
IsSpell(power) ==
    LET group == safe_get_text(Some(power), "group", <<>>)
        spell_level == safe_get_text(Some(power), "level", <<>>)
        spell_school == safe_get_text(Some(power), "school", <<>>)
    IN (Contains(group, SPELLS) \/ spell_school # <<>>) /\ spell_level # <<>>

\* Lines 262-283.
SpellEntry(power) ==
    [name |-> safe_get_text(Some(power), "name", <<>>),
     level |-> safe_get_text(Some(power), "level", <<>>),
     prepared |-> safe_get_text(Some(power), "prepared", ZERO),
     school |-> safe_get_text(Some(power), "school", <<>>),
     description |-> formatted_html(power.description)]

\* Lines 253-283.
RECURSIVE FilterSpells(_)
FilterSpells(powers) ==
    IF powers = <<>> THEN <<>>
    ELSE (IF IsSpell(Head(powers)) THEN <<SpellEntry(Head(powers))>> ELSE <<>>)
         \o FilterSpells(Tail(powers))

\* A sort key that puts a level that is not numeric first.
SpellLevelKeyZero(x) == IF IsDigit(x.level) THEN DigitsVal(x.level) ELSE 0

\* Line 285: the sort key's first component.
SpellLevelKey(x) == IF IsDigit(x.level) THEN DigitsVal(x.level) ELSE 99

\* Line 285: key(a) < key(b) for the (level, name) tuples.
SpellKeyLess(a, b) ==
    \/ SpellLevelKey(a) < SpellLevelKey(b)
    \/ SpellLevelKey(a) = SpellLevelKey(b) /\ StrLess(a.name, b.name)

RECURSIVE InsertSpell(_, _)
InsertSpell(sorted, x) ==
    IF sorted = <<>> THEN <<x>>
    ELSE LET last == sorted[Len(sorted)]
         IN IF SpellKeyLess(x, last)
            THEN InsertSpell(SubSeq(sorted, 1, Len(sorted) - 1), x) \o <<last>>
            ELSE sorted \o <<x>>

RECURSIVE SortSpells(_)
SortSpells(spells) ==
    IF spells = <<>> THEN <<>>
    ELSE InsertSpell(SortSpells(SubSeq(spells, 1, Len(spells) - 1)),
                     spells[Len(spells)])

\* Lines 253-285.
Spells(c) == SortSpells(FilterSpells(c.powers))

\* Lines 303-316: the dict as a function from the levels it holds.
SpellSlotKeys(c) ==
    IF c.powermeta = None THEN {}
    ELSE {slot_level \in 1..9 :
            /\ c.powermeta[1][slot_level] # None
            /\ LET max_slots == safe_get_text(c.powermeta[1][slot_level], "max", ZERO)
               IN max_slots # <<>> /\ max_slots # ZERO}

SpellSlots(c) ==
    [slot_level \in SpellSlotKeys(c) |->
        [max |-> safe_get_text(c.powermeta[1][slot_level], "max", ZERO),
         used |-> safe_get_text(c.powermeta[1][slot_level], "used", ZERO)]]

(***************************************************************************)
(* parse_fgu_character_to_html: rendering (lines 318-986).                 *)
(*                                                                         *)
(* html is the sequence of the pieces appended to the document, in order. *)
(* A piece is [part, ctx, text, key]: part names the place in the         *)
(* template; ctx is "text" for a value interpolated into element content, *)
(* "attr" for a value interpolated into an attribute value, "markup" for  *)
(* a value interpolated as markup, and "literal" for text of the template *)
(* itself; text is the str inserted; key is the slot level or the count   *)
(* the piece belongs to (0 when it has none).                             *)
(***************************************************************************)
Chunk(part, ctx, text, key) == [part |-> part, ctx |-> ctx, text |-> text, key |-> key]
Lit(part) == Chunk(part, "literal", <<>>, 0)

CHECKED == <<"c", "h", "e", "c", "k", "e", "d">>

\* Lines 319-324 and 705-736.
RenderHeader(l) ==
    LET race_display ==
            IF l.subrace # <<>> THEN l.race \o <<" ", "(">> \o l.subrace \o <<")">>
            ELSE l.race
        classes_str ==
            Join(<<",", " ">>,
                 [i \in 1..Len(l.classes_info) |->
                     l.classes_info[i].name \o <<" ">> \o l.classes_info[i].level])
    IN   <<IF l.name # <<>> THEN Chunk("title", "text", escape_html(l.name), 0)
           ELSE Lit("title_unknown")>>
      \o <<IF l.name # <<>> THEN Chunk("h1", "text", escape_html(l.name), 0)
           ELSE Lit("h1_character_name")>>
      \o (IF l.race # <<>>
          THEN <<Chunk("race", "text", escape_html(race_display), 0)>> ELSE <<>>)
      \o (IF l.classes_info # <<>>
          THEN <<Chunk("classes", "text", escape_html(classes_str), 0)>> ELSE <<>>)
      \o (IF l.background # <<>>
          THEN <<Chunk("background", "text", escape_html(l.background), 0)>> ELSE <<>>)
      \o (IF l.alignment # <<>>
          THEN <<Chunk("alignment", "text", escape_html(l.alignment), 0)>> ELSE <<>>)
      \o <<Chunk("prof_bonus", "text", format_modifier(PyInt(l.prof_bonus)).val, 0)>>

\* Lines 739-755, for one ability.
RenderAbility(abilities, i) ==
    LET abil_data == abilities[ability_names[i]]
        score == IF abil_data = None THEN <<"1", "0">> ELSE abil_data[1].score
        bonus == IF abil_data = None THEN ZERO ELSE abil_data[1].bonus
        save == IF abil_data = None THEN ZERO ELSE abil_data[1].save
        is_prof == IF abil_data = None THEN FALSE ELSE abil_data[1].saveprof
    IN <<Lit("abil_display"),
         Chunk("ability_score", "text", escape_html(score), i),
         Chunk("ability_modifier", "text", format_modifier(PyStr(bonus)).val, i),
         Chunk("ability_save", "text", format_modifier(PyStr(save)).val, i),
         Lit(IF is_prof THEN "save_proficient" ELSE "save_not_proficient")>>

RECURSIVE Concat(_)
Concat(seqs) == IF seqs = <<>> THEN <<>> ELSE Head(seqs) \o Concat(Tail(seqs))

\* Lines 763-769, for one skill.
RenderSkill(skill, i) ==
    <<Lit(IF skill.prof THEN "skill_proficient" ELSE "skill_not_proficient"),
      Chunk("skill_name", "text", escape_html(skill.name), i),
      Chunk("skill_total", "text", format_modifier(PyStr(skill.total)).val, i)>>

\* Lines 738-773.
RenderSidebar(l) ==
       Concat([i \in 1..Len(ability_names) |-> RenderAbility(l.abilities, i)])
    \o <<Lit("skills_open")>>
    \o Concat([i \in 1..Len(l.skills) |-> RenderSkill(l.skills[i], i)])
    \o <<Lit("skills_close")>>

\* Lines 775-810.
RenderStats(l) ==
    <<Chunk("hp_total", "text", escape_html(l.hp_total), 0),
      Chunk("hp_wounds", "attr", l.hp_wounds, 0),
      Chunk("hp_temp", "attr", l.hp_temp, 0),
      Chunk("ac_total", "text", escape_html(l.ac_total), 0),
      Chunk("initiative", "text", format_modifier(PyStr(l.initiative)).val, 0),
      Chunk("speed_total", "text", escape_html(l.speed_total), 0)>>

\* Lines 812-826.
RenderFeatures(features) ==
       <<Lit("features_open")>>
    \o Concat([i \in 1..Len(features) |->
           <<Chunk("feature_name", "text", escape_html(features[i].name), i),
             Chunk("feature_level", "text", escape_html(features[i].level), i)>>])
    \o (IF features = <<>> THEN <<Lit("no_features")>> ELSE <<>>)
    \o <<Lit("features_close")>>

\* A feats list that writes the placeholder whatever the list holds.
RenderFeatsAlwaysPlaceholder(feats) ==
       <<Lit("feats_open")>>
    \o [i \in 1..Len(feats) |->
           Chunk("feat_name", "text", escape_html(feats[i].name), i)]
    \o <<Lit("no_feats"), Lit("feats_close")>>

\* Lines 828-842.
RenderFeats(feats) ==
       <<Lit("feats_open")>>
    \o [i \in 1..Len(feats) |->
           Chunk("feat_name", "text", escape_html(feats[i].name), i)]
    \o (IF feats = <<>> THEN <<Lit("no_feats")>> ELSE <<>>)
    \o <<Lit("feats_close")>>

\* An inventory list that writes the multiplier for every count.
RenderInventoryAlwaysCount(inventory) ==
       <<Lit("inventory_open")>>
    \o Concat([i \in 1..Len(inventory) |->
           <<Chunk("item_name", "text", escape_html(inventory[i].name), i),
             Chunk("item_count", "text",
                   escape_html(<<" ", "x">> \o inventory[i].count), i)>>])
    \o (IF inventory = <<>> THEN <<Lit("no_equipment")>> ELSE <<>>)
    \o <<Lit("inventory_close")>>

\* Lines 847-865.
RenderInventory(inventory) ==
       <<Lit("inventory_open")>>
    \o Concat([i \in 1..Len(inventory) |->
           LET count_text == IF inventory[i].count # ONE
                             THEN <<" ", "x">> \o inventory[i].count ELSE <<>>
           IN <<Chunk("item_name", "text", escape_html(inventory[i].name), i),
                Chunk("item_count", "text", escape_html(count_text), i)>>])
    \o (IF inventory = <<>> THEN <<Lit("no_equipment")>> ELSE <<>>)
    \o <<Lit("inventory_close")>>

coin_order == <<<<"P", "P">>, <<"G", "P">>, <<"E", "P">>, <<"S", "P">>, <<"C", "P">>>>

\* A lookup in which the first amount assigned to the name stays.
RECURSIVE CoinsGetFirst(_, _, _)
CoinsGetFirst(coins, coin_type, default) ==
    IF coins = <<>> THEN default
    ELSE IF Head(coins).name = coin_type THEN Head(coins).amount
    ELSE CoinsGetFirst(Tail(coins), coin_type, default)

\* coins.get(coin_type, "0") of line 874: the last amount assigned to the name.
RECURSIVE CoinsGet(_, _, _)
CoinsGet(coins, coin_type, default) ==
    IF coins = <<>> THEN default
    ELSE IF coins[Len(coins)].name = coin_type THEN coins[Len(coins)].amount
    ELSE CoinsGet(SubSeq(coins, 1, Len(coins) - 1), coin_type, default)

\* Lines 867-882.
RenderCoins(coins) ==
       <<Lit("coins_open")>>
    \o Concat([i \in 1..Len(coin_order) |->
           <<Chunk("coin_type", "literal", coin_order[i], i),
             Chunk("coin_value", "attr",
                   escape_html(CoinsGet(coins, coin_order[i], ZERO)), i)>>])
    \o <<Lit("coins_close")>>

\* Lines 812-886.
RenderLists(l) ==
       RenderFeatures(l.features) \o RenderFeats(l.feats)
    \o RenderInventory(l.inventory) \o RenderCoins(l.coins)

\* Line 893: sorted(spell_slots.keys(), key=int).  The keys "1".."9" are
\* modelled by the numbers they spell.
RECURSIVE SortedLevels(_)
SortedLevels(keys) ==
    IF keys = {} THEN <<>>
    ELSE LET lo == CHOOSE k \in keys : \A j \in keys : k <= j
         IN <<lo>> \o SortedLevels(keys \ {lo})

\* Lines 899-900 and 916-917 raise ValueError for the level.
SlotRaises(slot) == ~IntParses(slot.max) \/ ~IntParses(slot.used)

\* The str int() rejected at lines 899-900 and 916-917.
SlotBadLiteral(slot) == IF ~IntParses(slot.max) THEN slot.max ELSE slot.used

\* Lines 905-908 and 922-925: range(max_slots), checked while i < used_slots.
SlotMarkersOffByOne(slot, lvl) ==
    LET max_slots == IntOf(slot.max)
        used_slots == IntOf(slot.used)
    IN [i \in 1..max_slots |->
           Chunk("slot_marker", "literal",
                 IF (i - 1) <= used_slots THEN CHECKED ELSE <<>>, lvl)]

SlotMarkers(slot, lvl) ==
    LET max_slots == IntOf(slot.max)
        used_slots == IntOf(slot.used)
    IN [i \in 1..max_slots |->
           Chunk("slot_marker", "literal",
                 IF (i - 1) < used_slots THEN CHECKED ELSE <<>>, lvl)]

\* Lines 898-911 and 915-928, for one level.
RenderSlotLevel(spell_slots, lvl) ==
       <<Chunk("slot_level", "literal", IntToStr(lvl), lvl)>>
    \o SlotMarkers(spell_slots[lvl], lvl)

\* A split that gives column one the smaller half.
RenderSpellSlotsFloor(spell_slots) ==
    IF DOMAIN spell_slots = {} THEN <<>>
    ELSE LET spell_levels == SortedLevels(DOMAIN spell_slots)
             mid_point == Len(spell_levels) \div 2
         IN    <<Lit("slots_open"), Lit("slots_column_one")>>
            \o Concat([i \in 1..mid_point |->
                   RenderSlotLevel(spell_slots, spell_levels[i])])
            \o <<Lit("slots_column_two")>>
            \o Concat([i \in 1..(Len(spell_levels) - mid_point) |->
                   RenderSlotLevel(spell_slots, spell_levels[mid_point + i])])
            \o <<Lit("slots_close")>>

\* Lines 888-932, when no int() raises.
RenderSpellSlots(spell_slots) ==
    IF DOMAIN spell_slots = {} THEN <<>>
    ELSE LET spell_levels == SortedLevels(DOMAIN spell_slots)
             mid_point == (Len(spell_levels) + 1) \div 2
         IN    <<Lit("slots_open"), Lit("slots_column_one")>>
            \o Concat([i \in 1..mid_point |->
                   RenderSlotLevel(spell_slots, spell_levels[i])])
            \o <<Lit("slots_column_two")>>
            \o Concat([i \in 1..(Len(spell_levels) - mid_point) |->
                   RenderSlotLevel(spell_slots, spell_levels[mid_point + i])])
            \o <<Lit("slots_close")>>

\* Line 941: the group a spell is filed under.
GroupLabel(spell) ==
    IF spell.level # <<>> /\ spell.level # ZERO THEN spell.level ELSE CANTRIP

\* Lines 939-944: the keys of spells_by_level in insertion order.
RECURSIVE GroupKeys(_, _)
GroupKeys(spells, seen) ==
    IF spells = <<>> THEN <<>>
    ELSE LET lbl == GroupLabel(Head(spells))
         IN IF lbl \in seen THEN GroupKeys(Tail(spells), seen)
            ELSE <<lbl>> \o GroupKeys(Tail(spells), seen \cup {lbl})

\* Lines 939-944: spells_by_level[lbl].
RECURSIVE GroupSpells(_, _)
GroupSpells(spells, lbl) ==
    IF spells = <<>> THEN <<>>
    ELSE (IF GroupLabel(Head(spells)) = lbl THEN <<Head(spells)>> ELSE <<>>)
         \o GroupSpells(Tail(spells), lbl)

\* Line 946: key(a) < key(b) for the (x != 'Cantrip', int) tuples.
LevelKeyNum(x) == IF IsDigit(x) THEN DigitsVal(x) ELSE 0

LevelKeyLessLexical(a, b) == StrLess(a, b)

LevelKeyLess(a, b) ==
    \/ a = CANTRIP /\ b # CANTRIP
    \/ (a = CANTRIP) = (b = CANTRIP) /\ LevelKeyNum(a) < LevelKeyNum(b)

RECURSIVE InsertLevel(_, _)
InsertLevel(sorted, x) ==
    IF sorted = <<>> THEN <<x>>
    ELSE LET last == sorted[Len(sorted)]
         IN IF LevelKeyLess(x, last)
            THEN InsertLevel(SubSeq(sorted, 1, Len(sorted) - 1), x) \o <<last>>
            ELSE sorted \o <<x>>

RECURSIVE SortLevels(_)
SortLevels(keys) ==
    IF keys = <<>> THEN <<>>
    ELSE InsertLevel(SortLevels(SubSeq(keys, 1, Len(keys) - 1)), keys[Len(keys)])

\* Line 946.
LevelOrder(spells) == SortLevels(GroupKeys(spells, {}))

\* Lines 956-968, for one spell.
RenderSpell(spell) ==
       <<Lit(IF spell.prepared # <<>> /\ spell.prepared # ZERO
             THEN "spell_prepared" ELSE "spell_not_prepared"),
         Chunk("spell_name", "text", escape_html(spell.name), 0)>>
    \o (IF spell.school # <<>>
        THEN <<Chunk("spell_school", "text", escape_html(spell.school), 0)>> ELSE <<>>)
    \o (IF spell.description # <<>>
        THEN <<Chunk("spell_description", "markup", spell.description, 0)>> ELSE <<>>)

\* Lines 948-970, for one group.
RenderSpellGroup(spells, lbl) ==
    LET level_spells == GroupSpells(spells, lbl)
    IN    <<Chunk("spell_group", "text", escape_html(lbl), Len(level_spells))>>
       \o Concat([i \in 1..Len(level_spells) |-> RenderSpell(level_spells[i])])
       \o <<Lit("spell_group_close")>>

\* Lines 934-984.
RenderSpells(spells) ==
    LET level_order == LevelOrder(spells)
    IN (IF spells # <<>>
        THEN    <<Lit("spells_open")>>
             \o Concat([i \in 1..Len(level_order) |->
                    RenderSpellGroup(spells, level_order[i])])
             \o <<Lit("spells_close")>>
        ELSE <<>>)
       \o <<Lit("html_close")>>

(***************************************************************************)
(* The documents the model hands to parse_fgu_character_to_html.           *)
(***************************************************************************)
SeqsUpTo(S, n) == UNION {[1..k -> S] : k \in 0..n}

AbilityNameSet == {ability_names[i] : i \in 1..Len(ability_names)}

\* A character element with no children at all.
BaseChar ==
    [name |-> <<>>, race |-> <<>>, subrace |-> <<>>, alignment |-> <<>>,
     background |-> <<>>, classes |-> <<>>,
     abilities |-> [n \in AbilityNameSet |-> None],
     hp |-> None, ac |-> None, speed |-> None, initiative |-> None,
     skilllist |-> <<>>, featurelist |-> <<>>, featlist |-> <<>>,
     inventorylist |-> <<>>, coins |-> <<>>, powers |-> <<>>, powermeta |-> None]

Document(c) == [wellformed |-> TRUE, character |-> Some(c)]

\* Scalar fields: every field holds t or u, texts that may hold markup characters.
TextAlphabet == {"1", "<", "&", "'"}
Texts == StringsUpTo(TextAlphabet, MaxTextLen)

FilledChar(t, u) ==
    [BaseChar EXCEPT
        !.name = t, !.race = t, !.subrace = u, !.alignment = u, !.background = t,
        !.classes = <<[name |-> t, level |-> u]>>,
        !.abilities = [n \in AbilityNameSet |->
            IF n \in {"strength", "dexterity"}
            THEN Some([score |-> t, bonus |-> u, save |-> u, saveprof |-> ONE])
            ELSE None],
        !.hp = Some([total |-> t, wounds |-> u, temporary |-> u]),
        !.ac = Some([total |-> t]),
        !.speed = Some([total |-> t]),
        !.initiative = Some([total |-> <<>>]),
        !.skilllist = <<[name |-> t, total |-> u, prof |-> ONE]>>,
        !.featurelist = <<[name |-> t, level |-> u]>>,
        !.featlist = <<[name |-> t]>>,
        !.inventorylist = <<[name |-> t, count |-> u]>>,
        !.coins = <<[name |-> <<"G", "P">>, amount |-> u]>>,
        !.powers = <<[group |-> SPELLS, level |-> ONE, school |-> u, name |-> t,
                      prepared |-> ONE,
                      description |-> Some([text |-> <<"a">>, children |-> <<>>])]>>]

FilledDocs == {Document(FilledChar(t, u)) : t \in Texts, u \in Texts}

\* Classes: up to MaxClasses classes, each with one of these level texts.
ClassLevels ==
    {<<>>, <<"a">>, ZERO, ONE, <<"2">>, <<"3">>, <<"5">>, <<"1", "7">>,
     <<"2", "0">>, <<"-", "1">>, <<"-", "3">>, <<" ", "2">>}

ClassDocs ==
    {Document([BaseChar EXCEPT !.classes =
                  [i \in DOMAIN lv |-> [name |-> <<"A">>, level |-> lv[i]]]]) :
        lv \in SeqsUpTo(ClassLevels, MaxClasses)}

\* Skills: up to MaxSkills skills; the total tells the source position.
SkillNames == {<<>>, <<"a">>, <<"a", "b">>, <<"B">>}

SkillDocs ==
    {Document([BaseChar EXCEPT !.skilllist =
                  [i \in DOMAIN nm |->
                      [name |-> nm[i], total |-> IntToStr(i), prof |-> ZERO]]]) :
        nm \in SeqsUpTo(SkillNames, MaxSkills)}

\* Powers: up to MaxPowers entries.
Power(group, lvl, school, name) ==
    [group |-> group, level |-> lvl, school |-> school, name |-> name,
     prepared |-> <<>>, description |-> None]

PowerLevels == {ZERO, <<"2">>, <<"1", "0", "0">>, <<"a">>}

\* The entries named a are in a group whose name contains 'Spells', the
\* entries named b have a school and no group; the entries named c have
\* neither group nor school, or no level.
PowerChoices ==
    {Power(<<"x">> \o SPELLS, lvl, <<>>, <<"a">>) : lvl \in PowerLevels}
    \cup {Power(<<>>, lvl, <<"A">>, <<"b">>) : lvl \in PowerLevels}
    \cup {Power(<<>>, ONE, <<>>, <<"c">>), Power(SPELLS, <<>>, <<"A">>, <<"c">>)}

PowerDocs ==
    {Document([BaseChar EXCEPT !.powers = ps]) : ps \in SeqsUpTo(PowerChoices, MaxPowers)}

\* Spell slots: up to MaxSlotLevels declared levels; the highest holds one of
\* these (max, used) pairs, the others max 2 and used 1.
SlotMaxTexts == {<<>>, ZERO, <<"0", "0">>, <<"2">>, <<"4">>, <<"a">>}
SlotUsedTexts == {<<>>, <<"2">>, <<"5">>, <<"a">>}

SlotDocs ==
    {Document([BaseChar EXCEPT !.powermeta =
                  Some([k \in 1..9 |->
                      IF k \notin L THEN None
                      ELSE IF \A j \in L : j <= k THEN Some([max |-> m, used |-> u])
                      ELSE Some([max |-> <<"2">>, used |-> ONE])])]) :
        L \in {S \in SUBSET (1..9) : S # {} /\ Cardinality(S) <= MaxSlotLevels},
        m \in SlotMaxTexts, u \in SlotUsedTexts}

\* Features, feats and inventory: up to MaxItems entries of one list, the
\* other lists empty.
ItemNames == {<<"a">>, <<"b">>}
ItemCounts == {<<>>, ONE, <<"2", "0">>, <<" ", "1">>, <<"<">>}

FeatureDocs ==
    {Document([BaseChar EXCEPT !.featurelist =
                  [i \in DOMAIN nm |-> [name |-> nm[i], level |-> ONE]]]) :
        nm \in SeqsUpTo(ItemNames, MaxItems)}

FeatDocs ==
    {Document([BaseChar EXCEPT !.featlist = [i \in DOMAIN nm |-> [name |-> nm[i]]]]) :
        nm \in SeqsUpTo(ItemNames, MaxItems)}

InventoryDocs ==
    {Document([BaseChar EXCEPT !.inventorylist = items]) :
        items \in SeqsUpTo([name : ItemNames, count : ItemCounts], MaxItems)}

\* Coins: up to MaxItems slots, in any order, a symbol possibly twice, a
\* symbol the sheet does not know, an amount possibly empty.
CoinNames == {<<"P", "P">>, <<"C", "P">>, <<"X", "P">>}
CoinAmounts == {<<>>, <<"5">>, <<"<">>}

CoinDocs ==
    {Document([BaseChar EXCEPT !.coins = cs]) :
        cs \in SeqsUpTo([name : CoinNames, amount : CoinAmounts], MaxItems)}

\* Initiative: the record absent, or present with one of these totals; the
\* dexterity entry absent, or present with one of these bonuses.
InitiativeTotals == {<<>>, <<"3">>, <<"-", "1">>, <<"x">>}
DexterityBonuses == {<<>>, <<"2">>, <<"-", "1">>, <<"y">>}

InitiativeDocs ==
    {Document([BaseChar EXCEPT
                  !.initiative = ini,
                  !.abilities = [n \in AbilityNameSet |->
                                    IF n = "dexterity" THEN dex ELSE None]]) :
        ini \in {None} \cup {Some([total |-> t]) : t \in InitiativeTotals},
        dex \in {None} \cup {Some([score |-> <<"1", "4">>, bonus |-> b,
                                   save |-> <<>>, saveprof |-> ZERO]) :
                                b \in DexterityBonuses}}

\* Documents without the character record, and one that is not well-formed.
NoCharacterDoc == [wellformed |-> TRUE, character |-> None]
MalformedDoc == [wellformed |-> FALSE, character |-> None]

Documents ==
    FilledDocs \cup ClassDocs \cup SkillDocs \cup PowerDocs \cup SlotDocs
    \cup FeatureDocs \cup FeatDocs \cup InventoryDocs \cup CoinDocs
    \cup InitiativeDocs \cup {NoCharacterDoc, MalformedDoc}

(***************************************************************************)
(* parse_fgu_character_to_html, step by step.                              *)
(***************************************************************************)
NoLocals == [x \in {} |-> 0]

NoCharacterError == "Error: No character data found in XML"
ParseErrorText == "not well-formed (invalid token)"
ValueErrorText == "invalid literal for int() with base 10"

FmIdle == fm_value = Unset /\ fm_out = Unset /\ fm_again = Unset
FhIdle == element = None /\ fh_out = Unset /\ fh_again = Unset
GenIdle == request = Unset /\ response = Unset

CoreIdle ==
    /\ xml_content = MalformedDoc
    /\ char = None
    /\ locals = NoLocals
    /\ html = <<>>
    /\ ret = Unset

Init ==
    /\ pc = "parse"
    /\ xml_content \in Documents
    /\ char = None
    /\ locals = NoLocals
    /\ html = <<>>
    /\ ret = Unset
    /\ FmIdle
    /\ FhIdle
    /\ GenIdle

\* Lines 92-93.
ParseRoot ==
    /\ pc = "parse"
    /\ xml_content.wellformed
    /\ char' = xml_content.character
    /\ pc' = "check_char"
    /\ UNCHANGED <<xml_content, locals, html, ret, fmVars, fhVars, genVars>>

\* Line 92: ET.fromstring raises.
ParseRaises ==
    /\ pc = "parse"
    /\ ~xml_content.wellformed
    /\ locals' = [e |-> [text |-> ParseErrorText, arg |-> <<>>]]
    /\ pc' = "except"
    /\ UNCHANGED <<xml_content, char, html, ret, fmVars, fhVars, genVars>>

NoCharacterKeepsDocument ==
    /\ pc = "check_char"
    /\ char = None
    /\ ret' = [html |-> Some(html),
               error |-> Some([text |-> NoCharacterError, arg |-> <<>>])]
    /\ pc' = "done"
    /\ UNCHANGED <<xml_content, char, locals, html, fmVars, fhVars, genVars>>

\* Lines 95-96.
NoCharacter ==
    /\ pc = "check_char"
    /\ char = None
    /\ ret' = [html |-> None,
               error |-> Some([text |-> NoCharacterError, arg |-> <<>>])]
    /\ pc' = "done"
    /\ UNCHANGED <<xml_content, char, locals, html, fmVars, fhVars, genVars>>

\* Lines 98-125.
ExtractClasses ==
    /\ pc = "check_char"
    /\ char # None
    /\ LET total_level == TotalLevel(char[1].classes)
       IN locals' =
            [name |-> safe_get_text(char, "name", <<>>),
             race |-> safe_get_text(char, "race", <<>>),
             subrace |-> safe_get_text(char, "subrace", <<>>),
             alignment |-> safe_get_text(char, "alignment", <<>>),
             background |-> safe_get_text(char, "background", <<>>),
             classes_info |-> ClassesInfo(char[1].classes),
             total_level |-> total_level,
             prof_bonus |-> get_proficiency_bonus(total_level)]
    /\ pc' = "extract_stats"
    /\ UNCHANGED <<xml_content, char, html, ret, fmVars, fhVars, genVars>>

\* Lines 127-161.
ExtractStats ==
    /\ pc = "extract_stats"
    /\ LET c == char[1]
           abilities == Abilities(c)
       IN locals' = locals @@
            [abilities |-> abilities,
             hp_total |-> IF c.hp # None THEN safe_get_text(c.hp, "total", <<>>) ELSE ZERO,
             hp_wounds |-> Strip(IF c.hp # None THEN safe_get_text(c.hp, "wounds", <<>>)
                                 ELSE ZERO),
             hp_temp |-> Strip(IF c.hp # None THEN safe_get_text(c.hp, "temporary", <<>>)
                               ELSE ZERO),
             ac_total |-> IF c.ac # None THEN safe_get_text(c.ac, "total", <<>>)
                          ELSE <<"1", "0">>,
             speed_total |-> IF c.speed # None THEN safe_get_text(c.speed, "total", <<>>)
                             ELSE <<"3", "0">>,
             initiative |-> Initiative(c, abilities)]
    /\ pc' = "extract_lists"
    /\ UNCHANGED <<xml_content, char, html, ret, fmVars, fhVars, genVars>>

\* Lines 163-228.
ExtractLists ==
    /\ pc = "extract_lists"
    /\ LET c == char[1]
       IN locals' = locals @@
            [skills |-> Skills(c),
             features |-> Features(c),
             feats |-> Feats(c),
             inventory |-> Inventory(c),
             coins |-> Coins(c)]
    /\ pc' = "extract_spells"
    /\ UNCHANGED <<xml_content, char, html, ret, fmVars, fhVars, genVars>>

\* Lines 230-316.
ExtractSpells ==
    /\ pc = "extract_spells"
    /\ LET c == char[1]
       IN locals' = locals @@
            [spells |-> Spells(c),
             spell_slots |-> SpellSlots(c)]
    /\ pc' = "render_header"
    /\ UNCHANGED <<xml_content, char, html, ret, fmVars, fhVars, genVars>>

\* Lines 318-736.
BuildHeader ==
    /\ pc = "render_header"
    /\ html' = RenderHeader(locals)
    /\ pc' = "render_sidebar"
    /\ UNCHANGED <<xml_content, char, locals, ret, fmVars, fhVars, genVars>>

\* Lines 738-773.
BuildSidebar ==
    /\ pc = "render_sidebar"
    /\ html' = html \o RenderSidebar(locals)
    /\ pc' = "render_stats"
    /\ UNCHANGED <<xml_content, char, locals, ret, fmVars, fhVars, genVars>>

\* Lines 775-810.
BuildStats ==
    /\ pc = "render_stats"
    /\ html' = html \o RenderStats(locals)
    /\ pc' = "render_lists"
    /\ UNCHANGED <<xml_content, char, locals, ret, fmVars, fhVars, genVars>>

\* Lines 812-886.
BuildLists ==
    /\ pc = "render_lists"
    /\ html' = html \o RenderLists(locals)
    /\ pc' = "render_slots"
    /\ UNCHANGED <<xml_content, char, locals, ret, fmVars, fhVars, genVars>>

\* The levels of spell_slots whose max or used int() rejects.
RaisingLevels(spell_slots) ==
    {lvl \in DOMAIN spell_slots : SlotRaises(spell_slots[lvl])}

\* Lines 888-932, every int() succeeding.
BuildSpellSlots ==
    /\ pc = "render_slots"
    /\ RaisingLevels(locals.spell_slots) = {}
    /\ html' = html \o RenderSpellSlots(locals.spell_slots)
    /\ pc' = "render_spells"
    /\ UNCHANGED <<xml_content, char, locals, ret, fmVars, fhVars, genVars>>

\* Lines 899-900 and 916-917: int() raises ValueError at the first level, in
\* ascending order, whose max or used is no integer literal.
BuildSpellSlotsRaises ==
    /\ pc = "render_slots"
    /\ RaisingLevels(locals.spell_slots) # {}
    /\ LET bad == RaisingLevels(locals.spell_slots)
           lvl == CHOOSE k \in bad : \A j \in bad : k <= j
       IN locals' = locals @@
            [e |-> [text |-> ValueErrorText,
                    arg |-> SlotBadLiteral(locals.spell_slots[lvl])]]
    /\ pc' = "except"
    /\ UNCHANGED <<xml_content, char, html, ret, fmVars, fhVars, genVars>>

\* Lines 934-984.
BuildSpells ==
    /\ pc = "render_spells"
    /\ html' = html \o RenderSpells(locals.spells)
    /\ pc' = "return"
    /\ UNCHANGED <<xml_content, char, locals, ret, fmVars, fhVars, genVars>>

\* Line 986.
Return ==
    /\ pc = "return"
    /\ ret' = [html |-> Some(html), error |-> None]
    /\ pc' = "done"
    /\ UNCHANGED <<xml_content, char, locals, html, fmVars, fhVars, genVars>>

\* Lines 988-989.
Except ==
    /\ pc = "except"
    /\ ret' = [html |-> None, error |-> Some(locals.e)]
    /\ pc' = "done"
    /\ UNCHANGED <<xml_content, char, locals, html, fmVars, fhVars, genVars>>

Next ==
    \/ ParseRoot
    \/ ParseRaises
    \/ NoCharacter
    \/ ExtractClasses
    \/ ExtractStats
    \/ ExtractLists
    \/ ExtractSpells
    \/ BuildHeader
    \/ BuildSidebar
    \/ BuildStats
    \/ BuildLists
    \/ BuildSpellSlots
    \/ BuildSpellSlotsRaises
    \/ BuildSpells
    \/ Return
    \/ Except

Spec == Init /\ [][Next]_vars

(***************************************************************************)
(* Specification SpecProf: lines 92-125 on documents whose classes vary.  *)
(***************************************************************************)
InitProf ==
    /\ pc = "parse"
    /\ xml_content \in ClassDocs
    /\ char = None
    /\ locals = NoLocals
    /\ html = <<>>
    /\ ret = Unset
    /\ FmIdle
    /\ FhIdle
    /\ GenIdle

NextProf == ParseRoot \/ ExtractClasses

SpecProf == InitProf /\ [][NextProf]_vars

(***************************************************************************)
(* Specification SpecFmt: format_modifier applied to a value, then to its *)
(* own result.                                                             *)
(***************************************************************************)
FmAlphabet == {"0", "1", "5", "-", "+", " ", "a"}

InitFmt ==
    /\ pc = "fm_call"
    /\ \/ fm_value \in {PyStr(s) : s \in StringsUpTo(FmAlphabet, MaxFmLen)}
       \/ fm_value \in {PyInt(n) : n \in (0 - MaxFmInt)..MaxFmInt}
    /\ fm_out = Unset
    /\ fm_again = Unset
    /\ FhIdle
    /\ CoreIdle
    /\ GenIdle

FormatModifier ==
    /\ pc = "fm_call"
    /\ fm_out' = format_modifier(fm_value)
    /\ pc' = "fm_returned"
    /\ UNCHANGED <<fm_value, fm_again, fhVars, coreVars, genVars>>

FormatModifierAgain ==
    /\ pc = "fm_returned"
    /\ fm_again' = format_modifier(fm_out)
    /\ pc' = "fm_done"
    /\ UNCHANGED <<fm_value, fm_out, fhVars, coreVars, genVars>>

NextFmt == FormatModifier \/ FormatModifierAgain

SpecFmt == InitFmt /\ [][NextFmt]_vars

(***************************************************************************)
(* Specification SpecFh: formatted_html applied to an element, then the   *)
(* duplicate-line suppression of lines 49-60 applied to its result.       *)
(***************************************************************************)
FhAlphabet == {"a", "b", " ", "\n"}

\* Serialized child elements: a paragraph, without tail and with a tail
\* that ends its line, leaves a space before the line end, or leaves a blank
\* line after it.
FhChildren ==
    {<<"a">>, <<"a", "\n">>, <<" ", "a", "\n">>, <<"a", " ", "\n">>, <<"b", "\n">>,
     <<"a", "\n", "\n">>}

FhElements ==
    {Some([text |-> t, children |-> cs]) :
        t \in StringsUpTo(FhAlphabet, MaxFhLen),
        cs \in SeqsUpTo(FhChildren, MaxChildren)}
    \cup {None}

InitFh ==
    /\ pc = "fh_call"
    /\ element \in FhElements
    /\ fh_out = Unset
    /\ fh_again = Unset
    /\ FmIdle
    /\ CoreIdle
    /\ GenIdle

FormattedHtml ==
    /\ pc = "fh_call"
    /\ fh_out' = formatted_html(element)
    /\ pc' = "fh_returned"
    /\ UNCHANGED <<element, fh_again, fmVars, coreVars, genVars>>

SuppressAgain ==
    /\ pc = "fh_returned"
    /\ fh_again' = SuppressDuplicateLines(fh_out)
    /\ pc' = "fh_done"
    /\ UNCHANGED <<element, fh_out, fmVars, coreVars, genVars>>

NextFh == FormattedHtml \/ SuppressAgain

SpecFh == InitFh /\ [][NextFh]_vars

(***************************************************************************)
(* Specification SpecGen: the generate handler, lines 1226-1272, around    *)
(* the whole of parse_fgu_character_to_html.                               *)
(***************************************************************************)
\* str.lower() on the letters of the file names of the model.
LowerChar(c) ==
    CASE c = "A" -> "a"
      [] c = "X" -> "x"
      [] c = "M" -> "m"
      [] c = "L" -> "l"
      [] OTHER -> c

Lower(s) == [i \in 1..Len(s) |-> LowerChar(s[i])]

\* str.endswith.
EndsWith(s, suffix) ==
    /\ Len(s) >= Len(suffix)
    /\ SubSeq(s, Len(s) - Len(suffix) + 1, Len(s)) = suffix

\* An extension test that lets every file name through.
AnyExtension(filename) == TRUE

\* Line 1236: file.filename.lower().endswith('.xml').
HasXmlExtension(filename) == EndsWith(Lower(filename), <<".", "x", "m", "l">>)

\* str.isalnum() on one character: the ASCII letters and digits.
Letters ==
    {"a", "b", "c", "d", "e", "f", "g", "h", "i", "j", "k", "l", "m", "n", "o", "p",
     "q", "r", "s", "t", "u", "v", "w", "x", "y", "z",
     "A", "B", "C", "D", "E", "F", "G", "H", "I", "J", "K", "L", "M", "N", "O", "P",
     "Q", "R", "S", "T", "U", "V", "W", "X", "Y", "Z"}

IsAlnum(c) == c \in Letters \cup DigitChars

\* A cleaning that keeps the allowed characters and does not strip.
CleanNameUnstripped(char_name) ==
    SelectSeq(char_name, LAMBDA c : IsAlnum(c) \/ c \in {" ", "_", "-"})

\* Line 1257: the characters kept, then strip().
CleanName(char_name) ==
    Strip(SelectSeq(char_name, LAMBDA c : IsAlnum(c) \/ c \in {" ", "_", "-"}))

DefaultFilename ==
    <<"c", "h", "a", "r", "a", "c", "t", "e", "r", "_", "s", "h", "e", "e", "t",
      ".", "h", "t", "m", "l">>

\* Lines 1247-1261: the download name taken from the character's name; any
\* failure on the way leaves the default.
DownloadName(content) ==
    IF ~content.wellformed \/ content.character = None THEN DefaultFilename
    ELSE LET name_text == content.character[1].name
             char_name == Strip(name_text)
             clean_name == CleanName(char_name)
         IN IF name_text # <<>> /\ char_name # <<>> /\ clean_name # <<>>
            THEN clean_name \o <<".", "h", "t", "m", "l">>
            ELSE DefaultFilename

\* jsonify({'error': ...}) with a status, and send_file(...).
ErrorResponse(status, error) ==
    [status |-> status, error |-> Some(error), body |-> None, download_name |-> None]

FileResponse(body, download_name) ==
    [status |-> 200, error |-> None, body |-> Some(body),
     download_name |-> Some(download_name)]

HandlerError(text) == [text |-> text, arg |-> <<>>]

\* Line 1243: 'if error' is true for a str that is not empty.
ErrorIsTrue(error) == error # None /\ (error[1].text # "" \/ error[1].arg # <<>>)

\* A handler that answers every failure of the core with a server error.
RespondServerError(result, content) ==
    IF result.error # None THEN ErrorResponse(500, result.error[1])
    ELSE FileResponse(result.html[1], DownloadName(content))

\* Lines 1243-1272, given the pair the core returned.
Respond(result, content) ==
    IF ErrorIsTrue(result.error) THEN ErrorResponse(400, result.error[1])
    ELSE IF result.html = None
         THEN ErrorResponse(500,
                  HandlerError("'NoneType' object has no attribute 'encode'"))
    ELSE FileResponse(result.html[1], DownloadName(content))

\* The requests: no file part, or a file part with a name and a content.
FileNames ==
    {<<>>, <<"a", ".", "x", "m", "l">>, <<"A", ".", "X", "M", "L">>,
     <<"a", ".", "X", "m", "l">>, <<".", "x", "m", "l">>, <<"x", "m", "l">>,
     <<"a", ".", "t", "x", "t">>, <<"a", ".", "x", "m", "l", ".", "t">>,
     <<"a", ".", "x", "m">>}

CharacterNames ==
    {<<>>, <<" ">>, <<"a">>, <<" ", "a", " ", "b", " ">>, <<"<", "a", ">">>,
     <<"<">>, <<"a", "_", "1", "-">>}

GenDocs ==
    {Document([BaseChar EXCEPT !.name = n]) : n \in CharacterNames}
    \cup {Document(FilledChar(<<"a">>, ONE)),
          Document([BaseChar EXCEPT !.powermeta =
              Some([k \in 1..9 |->
                  IF k = 1 THEN Some([max |-> <<"a">>, used |-> ZERO]) ELSE None])]),
          Document([BaseChar EXCEPT !.powermeta =
              Some([k \in 1..9 |->
                  IF k = 1 THEN Some([max |-> <<"2">>, used |-> ONE]) ELSE None])]),
          NoCharacterDoc, MalformedDoc}

\* Uploads whose character name is any text over these characters: a letter,
\* a digit, the three other characters line 1257 keeps, one it removes and a
\* whitespace character it removes.
NameAlphabet == {"a", "1", " ", "_", "-", "<", "\t"}

NameDocs ==
    {Document([BaseChar EXCEPT !.name = n]) : n \in StringsUpTo(NameAlphabet, MaxNameLen)}

NoFiles == [type |-> "request", files |-> None]

Upload(filename, content) ==
    [type |-> "request",
     files |-> Some([filename |-> filename, content |-> content])]

Requests ==
    {NoFiles}
    \cup {Upload(f, d) : f \in FileNames, d \in GenDocs}
    \cup {Upload(<<"a", ".", "x", "m", "l">>, d) : d \in NameDocs}

InitGen ==
    /\ pc = "generate"
    /\ request \in Requests
    /\ response = Unset
    /\ CoreIdle
    /\ FmIdle
    /\ FhIdle

\* Lines 1229-1230.
NoFileUploaded ==
    /\ pc = "generate"
    /\ request.files = None
    /\ response' = ErrorResponse(400, HandlerError("No file uploaded"))
    /\ pc' = "responded"
    /\ UNCHANGED <<request, coreVars, fmVars, fhVars>>

\* Lines 1232-1234.
NoFileSelected ==
    /\ pc = "generate"
    /\ request.files # None
    /\ request.files[1].filename = <<>>
    /\ response' = ErrorResponse(400, HandlerError("No file selected"))
    /\ pc' = "responded"
    /\ UNCHANGED <<request, coreVars, fmVars, fhVars>>

\* Lines 1236-1237.
NotXmlFormat ==
    /\ pc = "generate"
    /\ request.files # None
    /\ request.files[1].filename # <<>>
    /\ ~HasXmlExtension(request.files[1].filename)
    /\ response' = ErrorResponse(400, HandlerError("File must be XML format"))
    /\ pc' = "responded"
    /\ UNCHANGED <<request, coreVars, fmVars, fhVars>>

\* Lines 1239-1241: the call of parse_fgu_character_to_html on the bytes read.
CallCore ==
    /\ pc = "generate"
    /\ request.files # None
    /\ request.files[1].filename # <<>>
    /\ HasXmlExtension(request.files[1].filename)
    /\ xml_content' = request.files[1].content
    /\ pc' = "parse"
    /\ UNCHANGED <<char, locals, html, ret, genVars, fmVars, fhVars>>

\* Lines 1243-1272, once the core has returned to the handler.
SendResponse ==
    /\ pc = "done"
    /\ request.type = "request"
    /\ response' = Respond(ret, xml_content)
    /\ pc' = "responded"
    /\ UNCHANGED <<request, coreVars, fmVars, fhVars>>

NextGen ==
    \/ NoFileUploaded
    \/ NoFileSelected
    \/ NotXmlFormat
    \/ CallCore
    \/ SendResponse
    \/ Next

SpecGen == InitGen /\ [][NextGen]_vars

(***************************************************************************)
(* Properties.                                                             *)
(***************************************************************************)
\* The function has returned a document.
Returned == pc = "done" /\ ret.html # None

\* The pieces of the document whose part is p, in order.
Pieces(h, p) == SelectSeq(h, LAMBDA ch : ch.part = p)

\* C1: for every input whose parsed root has no character child, the function
\* returns the missing-record error, a non-empty message, and None as the
\* document; it builds no piece of a document on the way.
C1_NoCharacterFails ==
    (xml_content.wellformed /\ xml_content.character = None) =>
        /\ pc \in {"parse", "check_char", "done"}
        /\ html = <<>>
        /\ pc = "done" =>
              /\ ret.html = None
              /\ ret.error # None
              /\ ret.error[1].text = NoCharacterError
              /\ NoCharacterError # ""

C1_Witness ==
    pc = "done" /\ xml_content.wellformed /\ xml_content.character = None

\* C2: every well-formed input that contains the character record, whatever
\* its fields hold, makes the function return a document and no error.
C2_OnlyMissingCharacterIsFatal ==
    (pc = "done" /\ xml_content.wellformed /\ xml_content.character # None) =>
        ret.html # None /\ ret.error = None

\* s holds no raw markup character: no '<', '>' or quote, and every '&'
\* opens one of the entities html.escape writes.
Entities == {EscapeChar(c) : c \in {"&", "<", ">", "\"", "'"}}

IsEscaped(s) ==
    \A i \in 1..Len(s) :
        /\ s[i] \notin {"<", ">", "\"", "'"}
        /\ s[i] = "&" =>
              \E ent \in Entities :
                  i + Len(ent) - 1 <= Len(s) /\ SubSeq(s, i, i + Len(ent) - 1) = ent

\* C3: in the returned document every source-derived scalar string, in text
\* context and in attribute-value context, is inserted in escaped form.
C3_EveryValueEscaped ==
    Returned =>
        \A i \in 1..Len(ret.html[1]) :
            ret.html[1][i].ctx \in {"text", "attr"} => IsEscaped(ret.html[1][i].text)

\* C4: the proficiency bonus is 2 + floor((total_level - 1) / 4) when
\* total_level >= 1 and 2 when total_level <= 0.
C4_ProficiencyBonusClamped ==
    pc = "extract_stats" =>
        locals.prof_bonus =
            IF locals.total_level >= 1 THEN 2 + ((locals.total_level - 1) \div 4) ELSE 2

\* A decimal literal without sign and without leading zeros.
IsCanonical(d) == IsDigit(d) /\ (Len(d) = 1 \/ d[1] # "0")

\* C5: format_modifier maps a value that parses as an integer n to '+n' when
\* n >= 0 and to the plain negative literal when n < 0, and returns every
\* other value unchanged.
C5_FormatModifier ==
    pc # "fm_call" =>
        IF fm_value.type = "int" \/ IntParses(fm_value.val)
        THEN LET n == IF fm_value.type = "int" THEN fm_value.val ELSE IntOf(fm_value.val)
                 out == fm_out.val
             IN /\ fm_out.type = "str"
                /\ Len(out) >= 2
                /\ IsCanonical(Tail(out))
                /\ n >= 0 => out[1] = "+" /\ DigitsVal(Tail(out)) = n
                /\ n < 0 => out[1] = "-" /\ DigitsVal(Tail(out)) = 0 - n
        ELSE PyEq(fm_out, fm_value)

C5_Witness ==
    /\ pc = "fm_returned"
    /\ PyEq(fm_value, PyStr(<<" ", "0", "5">>))
    /\ PyEq(fm_out, PyStr(<<"+", "5">>))

\* C6: format_modifier is idempotent: applied to its own result it returns
\* that result.
C6_FormatModifierIdempotent ==
    pc = "fm_done" => PyEq(fm_again, fm_out)

C6_Witness ==
    /\ pc = "fm_done"
    /\ PyEq(fm_value, PyInt(5))
    /\ PyEq(fm_out, PyStr(<<"+", "5">>))
    /\ PyEq(fm_again, PyStr(<<"+", "5">>))

\* C7: the duplicate-line suppression applied to the text formatted_html
\* produced yields the same text again.
C7_SuppressionIdempotent ==
    pc = "fh_done" => fh_again = fh_out

\* A block in which a repeated line was dropped and two lines were kept.
C7_Witness ==
    /\ pc = "fh_done"
    /\ element # None
    /\ Len(Split(fh_out)) >= 2
    /\ Len(Split(fh_out)) < Len(Split(HtmlStr(element[1])))
    /\ fh_again = fh_out

\* The skills of the returned document are the model's skills, in its order.
SkillsRendered ==
    LET rendered == Pieces(ret.html[1], "skill_name")
    IN /\ Len(rendered) = Len(locals.skills)
       /\ \A i \in 1..Len(rendered) :
              rendered[i].text = escape_html(locals.skills[i].name)

\* C8 as stated: of any two consecutive rendered skills the first name is
\* strictly less than the second.
C8_SkillsStrictlyAscending ==
    Returned =>
        /\ SkillsRendered
        /\ \A i \in 1..(Len(locals.skills) - 1) :
               StrLess(locals.skills[i].name, locals.skills[i + 1].name)

\* C8: of any two consecutive rendered skills the second name is never less
\* than the first, for every source order of the skill list.
C8_SkillsAscending ==
    Returned =>
        /\ SkillsRendered
        /\ \A i \in 1..(Len(locals.skills) - 1) :
               ~StrLess(locals.skills[i + 1].name, locals.skills[i].name)

\* Three skills whose source order is descending.
C8_Witness ==
    /\ Returned
    /\ Len(locals.skills) = 3
    /\ LET src == xml_content.character[1].skilllist
       IN StrLess(src[3].name, src[2].name) /\ StrLess(src[2].name, src[1].name)

\* The rendered spell groups: the positions of the group headings, and for
\* the k-th group its label and the spell names under it, in order.
GroupHeads(h) ==
    SelectSeq([i \in 1..Len(h) |-> i], LAMBDA i : h[i].part = "spell_group")

GroupEnd(h, k) ==
    IF k < Len(GroupHeads(h)) THEN GroupHeads(h)[k + 1] ELSE Len(h) + 1

GroupNames(h, k) ==
    LET inside == SubSeq(h, GroupHeads(h)[k], GroupEnd(h, k) - 1)
        names == Pieces(inside, "spell_name")
    IN [i \in 1..Len(names) |-> names[i].text]

\* The names of the spells of the list filed under label, in list order.
ListNames(spells, label) ==
    LET members == SelectSeq(spells, LAMBDA sp :
                       \/ sp.level = label
                       \/ label = CANTRIP /\ sp.level = ZERO)
    IN [i \in 1..Len(members) |-> escape_html(members[i].name)]

\* C9: the Cantrip group (the spells of level '0') comes first, the groups of
\* numeric level follow in ascending numeric level, each group holds its
\* spells in the order of the sorted spell list, and every spell of the list
\* is in exactly one group.
C9_SpellGroups ==
    Returned =>
        LET h == ret.html[1]
            heads == GroupHeads(h)
            label(k) == h[heads[k]].text
        IN /\ \A k \in 1..Len(heads) : label(k) = CANTRIP => k = 1
           /\ (\E i \in 1..Len(locals.spells) : locals.spells[i].level = ZERO) =>
                  Len(heads) >= 1 /\ label(1) = CANTRIP
           /\ \A j \in 1..Len(heads) : \A k \in (j + 1)..Len(heads) :
                  /\ label(j) # label(k)
                  /\ (IsDigit(label(j)) /\ IsDigit(label(k))) =>
                         DigitsVal(label(j)) <= DigitsVal(label(k))
           /\ \A k \in 1..Len(heads) :
                  /\ GroupNames(h, k) = ListNames(locals.spells, label(k))
                  /\ h[heads[k]].key = Len(GroupNames(h, k))
           /\ Len(Pieces(h, "spell_name")) = Len(locals.spells)

\* Three spells given as level 100, level 2, level 0: three groups.
C9_Witness ==
    /\ Returned
    /\ Len(locals.spells) = 3
    /\ LET src == xml_content.character[1].powers
           h == ret.html[1]
       IN /\ src[1].level = <<"1", "0", "0">> /\ src[2].level = <<"2">>
          /\ src[3].level = ZERO
          /\ Len(GroupHeads(h)) = 3
          /\ h[GroupHeads(h)[1]].text = CANTRIP
          /\ h[GroupHeads(h)[3]].text = <<"1", "0", "0">>

\* The markers rendered for slot level lvl, in order.
Markers(h, lvl) == SelectSeq(h, LAMBDA ch : ch.part = "slot_marker" /\ ch.key = lvl)

Min(a, b) == IF a <= b THEN a ELSE b

\* C10: for every populated slot level with maximum m >= 1 and used count
\* u >= 0 the document holds exactly m markers for the level, the first
\* min(u, m) of them checked and the others unchecked.
C10_SlotMarkers ==
    Returned =>
        \A lvl \in DOMAIN locals.spell_slots :
            LET slot == locals.spell_slots[lvl]
                m == IntOf(slot.max)
                u == IntOf(slot.used)
                marks == Markers(ret.html[1], lvl)
            IN (m >= 1 /\ u >= 0) =>
                   /\ Len(marks) = m
                   /\ \A i \in 1..m :
                          marks[i].text = IF i <= Min(u, m) THEN CHECKED ELSE <<>>

\* A level with max 4 and used 2: four markers, the first two checked.
C10_Witness ==
    /\ Returned
    /\ \E lvl \in DOMAIN locals.spell_slots :
           /\ locals.spell_slots[lvl] = [max |-> <<"4">>, used |-> <<"2">>]
           /\ Len(Markers(ret.html[1], lvl)) = 4
           /\ Markers(ret.html[1], lvl)[2].text = CHECKED
           /\ Markers(ret.html[1], lvl)[3].text = <<>>

\* The pieces of h between the literal pieces open and close.
Section(h, open, close) ==
    LET a == CHOOSE i \in 1..Len(h) : h[i] = Lit(open)
        b == CHOOSE i \in 1..Len(h) : h[i] = Lit(close)
    IN SubSeq(h, a + 1, b - 1)

\* The texts of the pieces of h whose part is p, in order.
PieceTexts(h, p) == [i \in 1..Len(Pieces(h, p)) |-> Pieces(h, p)[i].text]

\* The text the document shows for a source text.
Shown(s) == IF s = <<>> THEN <<>> ELSE escape(s)

\* C11: each of the features, feats and inventory lists renders exactly one
\* placeholder entry, and nothing else, when the model's list is empty; when
\* it is not empty it renders no placeholder and one item per entry, in
\* source order.
C11_ListPlaceholders ==
    Returned =>
        LET c == xml_content.character[1]
            features == Section(ret.html[1], "features_open", "features_close")
            feats == Section(ret.html[1], "feats_open", "feats_close")
            inventory == Section(ret.html[1], "inventory_open", "inventory_close")
        IN /\ IF c.featurelist = <<>>
              THEN features = <<Lit("no_features")>>
              ELSE /\ Pieces(features, "no_features") = <<>>
                   /\ PieceTexts(features, "feature_name") =
                          [i \in 1..Len(c.featurelist) |-> Shown(c.featurelist[i].name)]
           /\ IF c.featlist = <<>>
              THEN feats = <<Lit("no_feats")>>
              ELSE /\ Pieces(feats, "no_feats") = <<>>
                   /\ PieceTexts(feats, "feat_name") =
                          [i \in 1..Len(c.featlist) |-> Shown(c.featlist[i].name)]
           /\ IF c.inventorylist = <<>>
              THEN inventory = <<Lit("no_equipment")>>
              ELSE /\ Pieces(inventory, "no_equipment") = <<>>
                   /\ PieceTexts(inventory, "item_name") =
                          [i \in 1..Len(c.inventorylist) |->
                              Shown(c.inventorylist[i].name)]
           /\ \A p \in {"no_features", "no_feats", "no_equipment"} :
                  Len(Pieces(ret.html[1], p)) <= 1

\* Two feats, b before a, and no feature and no inventory item.
C11_Witness ==
    /\ Returned
    /\ xml_content.character[1].featurelist = <<>>
    /\ xml_content.character[1].inventorylist = <<>>
    /\ PieceTexts(ret.html[1], "feat_name") = << <<"b">>, <<"a">> >>
    /\ Len(Pieces(ret.html[1], "no_features")) = 1
    /\ Len(Pieces(ret.html[1], "no_feats")) = 0
    /\ Len(Pieces(ret.html[1], "no_equipment")) = 1

\* The amount the source records for the symbol sym: the amount of the last
\* coin slot of that name, '0' when the slot has no amount or no slot has
\* the name.
Recorded(coins, sym) ==
    LET slots == {i \in 1..Len(coins) : coins[i].name = sym}
    IN IF slots = {} THEN <<"0">>
       ELSE LET last == CHOOSE i \in slots : \A j \in slots : j <= i
            IN IF coins[last].amount = <<>> THEN <<"0">> ELSE coins[last].amount

\* C12: the wealth section renders exactly five coin entries, PP, GP, EP, SP,
\* CP in that order, whatever order or subset of coin slots the source
\* holds; each entry shows the amount recorded for its symbol, and '0' for a
\* symbol the source does not hold.
C12_CoinEntries ==
    Returned =>
        LET c == xml_content.character[1]
            wealth == Section(ret.html[1], "coins_open", "coins_close")
        IN /\ Len(wealth) = 10
           /\ [i \in 1..5 |-> wealth[2 * i - 1].text] =
                  << <<"P", "P">>, <<"G", "P">>, <<"E", "P">>, <<"S", "P">>, <<"C", "P">> >>
           /\ \A i \in 1..5 :
                  /\ wealth[2 * i - 1].part = "coin_type"
                  /\ wealth[2 * i].part = "coin_value"
                  /\ wealth[2 * i].text = Shown(Recorded(c.coins, wealth[2 * i - 1].text))
           /\ Len(Pieces(ret.html[1], "coin_type")) = 5
           /\ Len(Pieces(ret.html[1], "coin_value")) = 5

\* The source holds CP before PP and nothing else.
C12_Witness ==
    /\ Returned
    /\ xml_content.character[1].coins =
           <<[name |-> <<"C", "P">>, amount |-> <<"5">>],
             [name |-> <<"P", "P">>, amount |-> <<"<">>]>>
    /\ PieceTexts(ret.html[1], "coin_value") =
           << <<"&", "l", "t", ";">>, <<"0">>, <<"0">>, <<"0">>, <<"5">> >>

\* C13: an inventory entry renders its name with no multiplier suffix when
\* its count is '1' or is missing or empty, and its name followed by
\* ' x<count>' for every other count.
C13_CountSuffix ==
    Returned =>
        LET items == xml_content.character[1].inventorylist
            inventory == Section(ret.html[1], "inventory_open", "inventory_close")
        IN items # <<>> =>
               /\ Len(inventory) = 2 * Len(items)
               /\ \A i \in 1..Len(items) :
                      /\ inventory[2 * i - 1].part = "item_name"
                      /\ inventory[2 * i - 1].text = Shown(items[i].name)
                      /\ inventory[2 * i].part = "item_count"
                      /\ inventory[2 * i].text =
                             IF items[i].count \in {<<>>, <<"1">>} THEN <<>>
                             ELSE <<" ", "x">> \o escape(items[i].count)

\* Count '20' renders ' x20', count '1' renders nothing.
C13_Witness ==
    /\ Returned
    /\ LET items == xml_content.character[1].inventorylist
       IN /\ Len(items) = 2
          /\ items[1].count = <<"2", "0">>
          /\ items[2].count = <<"1">>
    /\ PieceTexts(ret.html[1], "item_count") = << <<" ", "x", "2", "0">>, <<>> >>

\* The initiative total of the source, empty when the record or its total is
\* absent or empty.
InitiativeTotal(c) == IF c.initiative = None THEN <<>> ELSE c.initiative[1].total

\* C14: with no initiative total and a dexterity entry, the rendered
\* initiative is the modifier-formatted dexterity bonus; with an initiative
\* total, the rendered initiative is that total, modifier-formatted, and the
\* dexterity bonus is not used.
C14_InitiativeFallback ==
    Returned =>
        LET c == xml_content.character[1]
            dex == c.abilities["dexterity"]
            rendered == Pieces(ret.html[1], "initiative")
        IN /\ Len(rendered) = 1
           /\ (InitiativeTotal(c) = <<>> /\ dex # None) =>
                  rendered[1].text = format_modifier(PyStr(dex[1].bonus)).val
           /\ InitiativeTotal(c) # <<>> =>
                  rendered[1].text = format_modifier(PyStr(InitiativeTotal(c))).val

\* No initiative record, dexterity bonus 2: '+2'.
C14_Witness ==
    /\ Returned
    /\ xml_content.character[1].initiative = None
    /\ xml_content.character[1].abilities["dexterity"] # None
    /\ xml_content.character[1].abilities["dexterity"][1].bonus = <<"2">>
    /\ PieceTexts(ret.html[1], "initiative") = << <<"+", "2">> >>

\* The file name ends in '.xml', whatever the case of its letters.
XmlNamed(filename) ==
    LET n == Len(filename)
    IN /\ n >= 4
       /\ filename[n - 3] = "."
       /\ filename[n - 2] \in {"x", "X"}
       /\ filename[n - 1] \in {"m", "M"}
       /\ filename[n] \in {"l", "L"}

\* The request has no file part, an empty file name, or a file name that
\* does not end in '.xml'.
Refused(req) ==
    \/ req.files = None
    \/ req.files[1].filename = <<>>
    \/ ~XmlNamed(req.files[1].filename)

\* C15: while generate handles a request with no file part, an empty file
\* name or a file name not ending in '.xml' (in any case of the letters),
\* parse_fgu_character_to_html is never entered and none of its variables
\* is touched, and the response, once given, is a 400 error.
C15_RefusedBeforeCore ==
    (request.type = "request" /\ Refused(request)) =>
        /\ pc \in {"generate", "responded"}
        /\ CoreIdle
        /\ pc = "responded" =>
               /\ response.status = 400
               /\ response.error # None
               /\ response.body = None

\* A file named a.txt: 400, and the core not entered.
C15_Witness ==
    /\ pc = "responded"
    /\ request.files # None
    /\ request.files[1].filename = <<"a", ".", "t", "x", "t">>
    /\ request.files[1].content.wellformed
    /\ response.status = 400
    /\ ret = Unset

\* C16: for a request that reaches the core, the response is a success that
\* carries the core's document exactly when the core returned a document,
\* and otherwise a 400 failure whose error is the core's error message as
\* the core returned it; no response holds both a document and an error.
C16_CoreResultForwarded ==
    (pc = "responded" /\ ~Refused(request)) =>
        /\ IF ret.html # None
           THEN /\ response.status = 200
                /\ response.body = ret.html
                /\ response.error = None
           ELSE /\ response.status = 400
                /\ response.error = ret.error
                /\ ret.error # None
                /\ response.body = None
        /\ response.body = None \/ response.error = None

\* A file named A.XML whose slot maximum is not an integer: the core's
\* ValueError message comes back with status 400.
C16_Witness ==
    /\ pc = "responded"
    /\ request.files # None
    /\ request.files[1].filename = <<"A", ".", "X", "M", "L">>
    /\ ret.html = None
    /\ ret.error[1].text = ValueErrorText
    /\ response.status = 400
    /\ response.error = ret.error

\* The sum of the levels of the source classes, a level int() rejects
\* counting 0.
RECURSIVE SumOfLevels(_)
SumOfLevels(classes) ==
    IF classes = <<>> THEN 0
    ELSE (IF IntParses(Head(classes).level) THEN IntOf(Head(classes).level) ELSE 0)
         + SumOfLevels(Tail(classes))

\* n as format_modifier writes an int.
Signed(n) == IF n >= 0 THEN <<"+">> \o NatToStr(n) ELSE <<"-">> \o NatToStr(0 - n)

\* C17: total_level is the sum of the class levels that parse as integers,
\* the others contributing 0, and the header shows the proficiency bonus of
\* that total in format_modifier's form; for a total of 1 or more the bonus
\* is 2 + floor((total_level - 1) / 4).
C17_TotalLevelInHeader ==
    Returned =>
        LET total == SumOfLevels(xml_content.character[1].classes)
            shown == Pieces(ret.html[1], "prof_bonus")
        IN /\ locals.total_level = total
           /\ Len(shown) = 1
           /\ shown[1].text = Signed(locals.prof_bonus)
           /\ total >= 1 => shown[1].text = Signed(2 + ((total - 1) \div 4))

\* A class of level 3 and a class of level 2: total 5, bonus 3, '+3'.
C17_Witness ==
    /\ Returned
    /\ LET classes == xml_content.character[1].classes
       IN /\ Len(classes) = 2
          /\ classes[1].level = <<"3">>
          /\ classes[2].level = <<"2">>
    /\ locals.total_level = 5
    /\ PieceTexts(ret.html[1], "prof_bonus") = << <<"+", "3">> >>

\* The lines of the block formatted_html assembles from its argument, and
\* the lines of the text it returns.
BlockLines == Split(HtmlStr(element[1]))
OutLines == IF fh_out = <<>> THEN <<>> ELSE Split(fh_out)

\* Line i is blank; line i is not blank and no earlier line has its trimmed
\* content.
IsBlank(lines, i) == Strip(lines[i]) = <<>>

FirstOccurrence(lines, i) ==
    /\ ~IsBlank(lines, i)
    /\ \A j \in 1..(i - 1) : Strip(lines[j]) # Strip(lines[i])

\* The lines whose index satisfies Keep, in order, and their trimmed contents.
KeptLines(lines, Keep(_)) ==
    LET idx == SelectSeq([i \in 1..Len(lines) |-> i], Keep)
    IN [k \in 1..Len(idx) |-> lines[idx[k]]]

Trimmed(lines) == [i \in 1..Len(lines) |-> Strip(lines[i])]

\* C18 as stated: the text returned holds, in their original order, the
\* first occurrence of every non-blank line and every interior blank line of
\* the block, and nothing else.
C18_KeepsEveryInteriorBlankLine ==
    (pc # "fh_call" /\ element # None) =>
        Trimmed(OutLines) =
            Trimmed(KeptLines(BlockLines, LAMBDA i :
                \/ FirstOccurrence(BlockLines, i)
                \/ IsBlank(BlockLines, i) /\ 1 < i /\ i < Len(BlockLines)))

\* C18: the text returned is the stripped join of, in their original order,
\* the first occurrence of every non-blank line and every blank line; its
\* lines are the first occurrences and the blank lines that a later first
\* occurrence follows.  A non-blank line is dropped exactly when an earlier
\* line has its trimmed content, and a blank line never causes a drop.
C18_DuplicateLinesDropped ==
    (pc # "fh_call" /\ element # None) =>
        /\ fh_out = Strip(Join(<<"\n">>, KeptLines(BlockLines, LAMBDA i :
                        FirstOccurrence(BlockLines, i) \/ IsBlank(BlockLines, i))))
        /\ Trimmed(OutLines) =
               Trimmed(KeptLines(BlockLines, LAMBDA i :
                   \/ FirstOccurrence(BlockLines, i)
                   \/ /\ IsBlank(BlockLines, i)
                      /\ \E k \in (i + 1)..Len(BlockLines) :
                             FirstOccurrence(BlockLines, k)))

\* A block of three lines, the second blank and the third a repetition of
\* the first behind a space: the text returned is the first line alone.
C18_Witness ==
    /\ pc = "fh_returned"
    /\ element # None
    /\ BlockLines = << <<"a">>, <<>>, <<" ", "a">> >>
    /\ fh_out = <<"a">>

\* The list is in ascending order of (level key, name), the key of a level
\* that is not numeric being 99.
SpellsInKeyOrder(spells) ==
    \A i \in 1..(Len(spells) - 1) :
        LET ka == IF IsDigit(spells[i].level) THEN DigitsVal(spells[i].level) ELSE 99
            kb == IF IsDigit(spells[i + 1].level)
                  THEN DigitsVal(spells[i + 1].level) ELSE 99
        IN \/ ka < kb
           \/ ka = kb /\ ~StrLess(spells[i + 1].name, spells[i].name)

\* C19 as stated: the list is ordered by numeric level, ties by name, a level
\* that is not numeric sorts as 99, and so every spell whose level is not
\* numeric comes after every spell whose level is numeric.
C19_NonNumericAfterEveryNumeric ==
    Returned =>
        /\ SpellsInKeyOrder(locals.spells)
        /\ \A i \in 1..Len(locals.spells) : \A j \in 1..Len(locals.spells) :
               (IsDigit(locals.spells[i].level) /\ ~IsDigit(locals.spells[j].level))
                   => i < j

\* C19: the list is ordered by numeric level, ties by name, a level that is
\* not numeric sorts as 99: such a spell comes after every spell of numeric
\* level below 99 and before every spell of numeric level above 99.
C19_SpellsSorted ==
    Returned =>
        /\ SpellsInKeyOrder(locals.spells)
        /\ \A i \in 1..Len(locals.spells) : \A j \in 1..Len(locals.spells) :
               (IsDigit(locals.spells[i].level) /\ ~IsDigit(locals.spells[j].level)) =>
                   /\ DigitsVal(locals.spells[i].level) < 99 => i < j
                   /\ DigitsVal(locals.spells[i].level) > 99 => j < i

\* Levels 100, a, 2 in the source: the list holds 2, a, 100.
C19_Witness ==
    /\ Returned
    /\ LET src == xml_content.character[1].powers
       IN /\ Len(src) = 3
          /\ src[1].level = <<"1", "0", "0">>
          /\ src[2].level = <<"a">>
          /\ src[3].level = <<"2">>
    /\ [i \in 1..Len(locals.spells) |-> locals.spells[i].level] =
           << <<"2">>, <<"a">>, <<"1", "0", "0">> >>

\* The power meets the condition of the claim.
Qualifies(power) ==
    /\ power.level # <<>>
    /\ \/ power.school # <<>>
       \/ \E i \in 1..Len(power.group) :
              /\ i + 5 <= Len(power.group)
              /\ SubSeq(power.group, i, i + 5) = <<"S", "p", "e", "l", "l", "s">>

\* The number of positions of s that satisfy Test.
CountOf(s, Test(_)) == Cardinality({i \in 1..Len(s) : Test(s[i])})

\* C20: a power is in the spell list exactly when its group contains 'Spells'
\* or its school is not empty, and its level is not empty: every qualifying
\* entry is in the list once, no other entry is, and an entry that fails the
\* condition raises no error.
C20_SpellFilter ==
    (pc = "done" /\ char # None /\ char[1].powermeta = None) =>
        /\ Returned
        /\ LET powers == char[1].powers
               Same(power, sp) ==
                   /\ sp.name = power.name
                   /\ sp.level = power.level
                   /\ sp.school = power.school
           IN /\ Len(locals.spells) = CountOf(powers, Qualifies)
              /\ \A i \in 1..Len(powers) :
                     CountOf(locals.spells, LAMBDA sp : Same(powers[i], sp)) =
                         CountOf(powers, LAMBDA q : Qualifies(q) /\ Same(powers[i], q))

\* Three powers: one in a group named 'xSpells', one with a school only, one
\* with group and school and no level; the list holds the first two.
C20_Witness ==
    /\ Returned
    /\ LET powers == xml_content.character[1].powers
       IN /\ Len(powers) = 3
          /\ powers[1].group = <<>> /\ powers[1].school # <<>> /\ powers[1].level # <<>>
          /\ powers[2].level = <<>>
          /\ powers[3].group # <<>> /\ powers[3].school = <<>> /\ powers[3].level # <<>>
    /\ Len(locals.spells) = 2

\* The slot levels rendered in the pieces h, in order.
LevelsIn(h) == [i \in 1..Len(Pieces(h, "slot_level")) |-> Pieces(h, "slot_level")[i].key]

\* C21: with k populated spell-slot levels, column one holds the first
\* ceil(k/2) of them and column two the other floor(k/2); every populated
\* level is in exactly one column, and the levels of column one followed by
\* those of column two are the populated levels in ascending numeric order.
C21_SlotColumns ==
    Returned =>
        LET h == ret.html[1]
            levels == DOMAIN locals.spell_slots
            k == Cardinality(levels)
        IN IF k = 0
           THEN Pieces(h, "slot_level") = <<>> /\ Pieces(h, "slots_column_one") = <<>>
           ELSE LET one == LevelsIn(Section(h, "slots_column_one", "slots_column_two"))
                    two == LevelsIn(Section(h, "slots_column_two", "slots_close"))
                    all == one \o two
                IN /\ Len(one) + Len(two) = k
                   /\ Len(one) - Len(two) \in {0, 1}
                   /\ {all[i] : i \in 1..Len(all)} = levels
                   /\ \A i \in 1..(Len(all) - 1) : all[i] < all[i + 1]
                   /\ Len(Pieces(h, "slot_level")) = k

\* Three populated levels: two in column one, the highest in column two.
C21_Witness ==
    /\ Returned
    /\ Cardinality(DOMAIN locals.spell_slots) = 3
    /\ Len(LevelsIn(Section(ret.html[1], "slots_column_one", "slots_column_two"))) = 2
    /\ LevelsIn(Section(ret.html[1], "slots_column_two", "slots_close")) = <<9>>

\* The text of the maximum the source declares for a slot level, <<>> when
\* the level declares none.
DeclaredMax(c, lvl) == c.powermeta[1][lvl][1].max

\* C22: the spell-slot mapping has keys only among levels 1..9, and a level is
\* a key only if the source declares it with a maximum that is not zero: a
\* level that is absent, has no maximum, or has a maximum that reads as zero
\* in any textual form is never a key.
C22_ZeroMaximumNeverKey ==
    ("spell_slots" \in DOMAIN locals) =>
        \A lvl \in DOMAIN locals.spell_slots :
            /\ lvl \in 1..9
            /\ char[1].powermeta # None
            /\ char[1].powermeta[1][lvl] # None
            /\ DeclaredMax(char[1], lvl) # <<>>
            /\ ~(IntParses(DeclaredMax(char[1], lvl)) /\ IntOf(DeclaredMax(char[1], lvl)) = 0)

\* The characters of a name that a file name may hold, in the name's order.
RECURSIVE AllowedOf(_)
AllowedOf(name) ==
    IF name = <<>> THEN <<>>
    ELSE (IF Head(name) \in Letters \cup DigitChars \cup {" ", "_", "-"}
          THEN <<Head(name)>> ELSE <<>>) \o AllowedOf(Tail(name))

\* s without the spaces at its two ends.
RECURSIVE TrimSpaces(_)
TrimSpaces(s) ==
    IF s = <<>> THEN <<>>
    ELSE IF Head(s) = " " THEN TrimSpaces(Tail(s))
    ELSE IF s[Len(s)] = " " THEN TrimSpaces(SubSeq(s, 1, Len(s) - 1))
    ELSE s

\* The name of the character of the uploaded document, <<>> when there is none.
UploadedName ==
    LET content == request.files[1].content
    IN IF ~content.wellformed \/ content.character = None THEN <<>>
       ELSE content.character[1].name

\* C23: the download name of a sent file is the alphanumeric characters,
\* spaces, underscores and hyphens of the character's name, trimmed and
\* followed by ".html"; it is "character_sheet.html" when the name is absent,
\* empty, or leaves nothing after the removal and the trimming.
C23_DownloadName ==
    (pc = "responded" /\ response.status = 200) =>
        LET kept == TrimSpaces(AllowedOf(UploadedName))
        IN response.download_name =
               Some(IF kept = <<>> THEN DefaultFilename
                    ELSE kept \o <<".", "h", "t", "m", "l">>)

\* The name "a <" is sent as "a.html": the "<" is removed, then the space.
C23_Witness ==
    /\ pc = "responded"
    /\ request.files # None
    /\ response.status = 200
    /\ UploadedName = <<"a", " ", "<">>
    /\ response.download_name = Some(<<"a", ".", "h", "t", "m", "l">>)

====
